---- MODULE Spec2Model ----
(***************************************************************************)
(* ScannerScreen (src/app/index.tsx): the screen's React state, its two    *)
(* mount effects (location bootstrap, database bootstrap), the effect on   *)
(* [database] (initial fetch, closeConnection on cleanup), the scan        *)
(* handler (saveCode, then fetchAllCodes, then setCodeRecords) and the     *)
(* copy action of a list item.                                             *)
(*                                                                         *)
(* Every await is a suspension point: the call is issued in one step and   *)
(* its continuation runs in a later step, so continuations of different    *)
(* flows interleave freely, as on the UI event loop.  A state variable     *)
(* holds the value last passed to its setter.  The web service behind      *)
(* saveCode / fetchAllCodes is not part of src/; it is modelled as an      *)
(* append-only store that answers a fetch with a snapshot taken at some    *)
(* point between the request and its resolution.                           *)
(***************************************************************************)
EXTENDS Integers, Sequences, FiniteSets, TLC

\* ------------------------------------------------------------- bounds
\* Number of scan events the camera delivers in one run.
MaxScans == 2

\* ------------------------------------------------------------- values
\* null / undefined of a useState cell is the empty sequence, a value v is <<v>>.
Null == <<>>
Undefined == <<>>
Some(v) == <<v>>

\* BarcodeScanningResult values delivered by the camera: {data, type}.
ScanInputs ==
    { [data |-> "ABC123", type |-> "qr"],
      [data |-> "XYZ789", type |-> "ean13"] }

\* The inputs the i-th scan event is drawn from.  No action looks at the value
\* of an input, so every run is a renaming of one whose first event is ABC123.
ScanInputsAt(i) == IF i = 1 THEN {s \in ScanInputs : s.data = "ABC123"} ELSE ScanInputs

\* Statuses Location.requestForegroundPermissionsAsync() can resolve with.
PermissionStatuses == {"granted", "denied", "undetermined"}

\* Position fixes Location.getCurrentPositionAsync() can resolve with.
Positions ==
    { [latitude |-> 19, longitude |-> -99],
      [latitude |-> 20, longitude |-> -103] }

\* The fixed message of setLocationError.
DeniedMessage == "Permiso de ubicacion no otorgado"

\* The handle connectDatabase() resolves with.
DbInstance == "dbInstance"

Slots == 1..MaxScans

NoArgs == [content |-> "", format |-> ""]

VARIABLES
    mounted,          \* the screen is on display (effects not yet cleaned up)
    active,           \* `let active` of the mount effect
    currentLocation,  \* useState: Null or Some(position)
    locationError,    \* useState: Null or Some(message)
    locPc,            \* where setupLocationService is
    permissionCalls,  \* calls of requestForegroundPermissionsAsync
    positionCalls,    \* calls of getCurrentPositionAsync
    permission,       \* history: what the permission request resolved with
    database,         \* useState: Undefined or Some(handle)
    dbPc,             \* where initializeDatabase is
    dbCleanup,        \* the [database] effect returned its cleanup
    closeCalls,       \* calls of closeConnection on the handle
    initFetch,        \* the fetchAllCodes() of the [database] effect
    initFetchCalls,   \* times the [database] effect called fetchAllCodes
    scans,            \* the handleScanResult invocations, in order of arrival
    scanEvents,       \* scan events the camera delivered to handleScanResult
    saveCalls,        \* calls of saveCode
    fetchCalls,       \* calls of fetchAllCodes made by handleScanResult
    scanOverlap,      \* history: how far scan events have overlapped so far
    codeRecords,      \* useState: the displayed list
    store,            \* the web service's records
    clipboard,        \* the system clipboard: Null or Some(string)
    lastFetch         \* history: which fetch resolved last, and its result

locVars == <<currentLocation, locationError, locPc, permissionCalls, positionCalls, permission>>
dbVars == <<database, dbPc, dbCleanup, closeCalls, initFetch, initFetchCalls>>
scanVars == <<scans, scanEvents, saveCalls, fetchCalls, scanOverlap>>
vars == <<mounted, active, locVars, dbVars, scanVars, codeRecords, store, clipboard, lastFetch>>

\* ------------------------------------------------------------- helpers
\* Mutant: content and format exchanged in the saveCode argument.
MutSaveArgsSwapped(scanData) == [content |-> scanData.type, format |-> scanData.data]

\* The argument handleScanResult passes to saveCode.
SaveArgs(scanData) == [content |-> scanData.data, format |-> scanData.type]

\* Mutant: the fetched records are merged into the list instead of replacing it.
MutSetCodeRecordsMerged(records) == codeRecords \o records

\* The value handleScanResult and the [database] effect pass to setCodeRecords.
SetCodeRecords(records) == records

\* Mutant: the [database] effect without its `if (!database) return;`.
MutDatabaseEffectAlways(db) == TRUE

\* `if (!database) return;` of the [database] effect.
DatabaseEffectRuns(db) == db # Undefined

\* The status line rendered from the two location cells.
locationStatus ==
    IF locationError # Null THEN <<"Error", locationError[1]>>
    ELSE IF currentLocation # Null
         THEN <<"Ubicacion", currentLocation[1].latitude, currentLocation[1].longitude>>
         ELSE <<"Obteniendo ubicacion...">>

\* The record the service stores for a saveCode argument.
NewRecord(args, s) == [id |-> Len(s) + 1, content |-> args.content, format |-> args.format]

IdleScan == [pc |-> "idle", data |-> "", type |-> "", saveArgs |-> NoArgs,
             savedId |-> 0, resp |-> <<>>]

SavePending(pc) == pc \in {"saveSent", "saveReady"}

InFlight(pc) == pc \in {"saveSent", "saveReady", "fetchSent", "fetchReady"}

\* ------------------------------------------------------------- initial state
\* After the first render and both effects' first run: setupLocationService and
\* initializeDatabase are suspended at their first await, database is undefined.
Init ==
    /\ mounted = TRUE
    /\ active = TRUE
    /\ currentLocation = Null
    /\ locationError = Null
    /\ locPc = "awaitPermission"
    /\ permissionCalls = 1
    /\ positionCalls = 0
    /\ permission = [status |-> "pending", whileActive |-> FALSE]
    /\ database = Undefined
    /\ dbPc = "awaitConnect"
    /\ dbCleanup = DatabaseEffectRuns(Undefined)
    /\ closeCalls = 0
    /\ initFetch = [pc |-> IF DatabaseEffectRuns(Undefined) THEN "sent" ELSE "none",
                    resp |-> <<>>]
    /\ initFetchCalls = IF DatabaseEffectRuns(Undefined) THEN 1 ELSE 0
    /\ scans = [i \in Slots |-> IdleScan]
    /\ scanEvents = 0
    /\ saveCalls = 0
    /\ fetchCalls = 0
    /\ scanOverlap = "none"
    /\ codeRecords = <<>>
    /\ store = <<>>
    /\ clipboard = Null
    /\ lastFetch = [by |-> "none", slot |-> 0, result |-> <<>>, tornDown |-> FALSE]

\* ------------------------------------------------------------- location bootstrap
\* Mutant: the `return` after setLocationError is missing, so a denied request
\* goes on to getCurrentPositionAsync().
MutPermissionNoReturn(status) ==
    /\ locPc = "awaitPermission"
    /\ IF ~active
       THEN /\ locPc' = "cancelled"
            /\ UNCHANGED <<locationError, positionCalls>>
       ELSE /\ locationError' = IF status # "granted" THEN Some(DeniedMessage)
                                                        ELSE locationError
            /\ positionCalls' = positionCalls + 1
            /\ locPc' = "awaitPosition"
    /\ permission' = [status |-> status, whileActive |-> active]
    /\ UNCHANGED <<currentLocation, permissionCalls>>
    /\ UNCHANGED <<mounted, active, dbVars, scanVars, codeRecords, store, clipboard, lastFetch>>

\* Mutant: the test is `status === 'denied'`, so any other status counts as granted.
MutPermissionOnlyDenied(status) ==
    /\ locPc = "awaitPermission"
    /\ IF ~active
       THEN /\ locPc' = "cancelled"
            /\ UNCHANGED <<locationError, positionCalls>>
       ELSE IF status = "denied"
            THEN /\ locationError' = Some(DeniedMessage)
                 /\ locPc' = "denied"
                 /\ UNCHANGED positionCalls
            ELSE /\ positionCalls' = positionCalls + 1
                 /\ locPc' = "awaitPosition"
                 /\ UNCHANGED locationError
    /\ permission' = [status |-> status, whileActive |-> active]
    /\ UNCHANGED <<currentLocation, permissionCalls>>
    /\ UNCHANGED <<mounted, active, dbVars, scanVars, codeRecords, store, clipboard, lastFetch>>

\* requestForegroundPermissionsAsync() resolves with `status`; the code after the
\* first await runs up to the next await or return.
PermissionResolved(status) ==
    /\ locPc = "awaitPermission"
    /\ IF ~active
       THEN /\ locPc' = "cancelled"
            /\ UNCHANGED <<locationError, positionCalls>>
       ELSE IF status # "granted"
            THEN /\ locationError' = Some(DeniedMessage)
                 /\ locPc' = "denied"
                 /\ UNCHANGED positionCalls
            ELSE /\ positionCalls' = positionCalls + 1
                 /\ locPc' = "awaitPosition"
                 /\ UNCHANGED locationError
    /\ permission' = [status |-> status, whileActive |-> active]
    /\ UNCHANGED <<currentLocation, permissionCalls>>
    /\ UNCHANGED <<mounted, active, dbVars, scanVars, codeRecords, store, clipboard, lastFetch>>

\* Mutant: a position watcher instead of the one-shot fix: every later reading
\* is stored too.
MutPositionWatched(position) ==
    /\ locPc \in {"awaitPosition", "located"}
    /\ IF active
       THEN /\ currentLocation' = Some(position)
            /\ locPc' = "located"
       ELSE /\ locPc' = "cancelled"
            /\ UNCHANGED currentLocation
    /\ UNCHANGED <<locationError, permissionCalls, positionCalls, permission>>
    /\ UNCHANGED <<mounted, active, dbVars, scanVars, codeRecords, store, clipboard, lastFetch>>

\* Mutant: setCurrentLocation(position) without the `if (active)`.
MutPositionUnguarded(position) ==
    /\ locPc = "awaitPosition"
    /\ currentLocation' = Some(position)
    /\ locPc' = "located"
    /\ UNCHANGED <<locationError, permissionCalls, positionCalls, permission>>
    /\ UNCHANGED <<mounted, active, dbVars, scanVars, codeRecords, store, clipboard, lastFetch>>

\* getCurrentPositionAsync() resolves with `position`.
PositionResolved(position) ==
    /\ locPc = "awaitPosition"
    /\ IF active
       THEN /\ currentLocation' = Some(position)
            /\ locPc' = "located"
       ELSE /\ locPc' = "cancelled"
            /\ UNCHANGED currentLocation
    /\ UNCHANGED <<locationError, permissionCalls, positionCalls, permission>>
    /\ UNCHANGED <<mounted, active, dbVars, scanVars, codeRecords, store, clipboard, lastFetch>>

\* Either awaited location call rejects: setupLocationService ends there.
LocationRejected ==
    /\ locPc \in {"awaitPermission", "awaitPosition"}
    /\ locPc' = "failed"
    /\ UNCHANGED <<currentLocation, locationError, permissionCalls, positionCalls, permission>>
    /\ UNCHANGED <<mounted, active, dbVars, scanVars, codeRecords, store, clipboard, lastFetch>>

\* ------------------------------------------------------------- database bootstrap
\* Mutant: initializeDatabase() is started only after `await
\* setupLocationService()`, so the open cannot resolve while a location call is
\* still pending.
MutConnectAfterLocation ==
    /\ locPc \notin {"awaitPermission", "awaitPosition"}
    /\ dbPc = "awaitConnect"
    /\ dbPc' = "connected"
    /\ database' = Some(DbInstance)
    /\ IF mounted /\ DatabaseEffectRuns(Some(DbInstance))
       THEN /\ initFetch' = [pc |-> "sent", resp |-> <<>>]
            /\ initFetchCalls' = initFetchCalls + 1
            /\ dbCleanup' = TRUE
       ELSE UNCHANGED <<initFetch, initFetchCalls, dbCleanup>>
    /\ UNCHANGED closeCalls
    /\ UNCHANGED <<mounted, active, locVars, scanVars, codeRecords, store, clipboard, lastFetch>>

\* connectDatabase() resolves: setDatabase(dbInstance).  On a mounted screen the
\* re-render runs the [database] effect, which issues the initial fetch and
\* returns the cleanup; a torn-down screen renders nothing and runs no effect.
ConnectResolved ==
    /\ dbPc = "awaitConnect"
    /\ dbPc' = "connected"
    /\ database' = Some(DbInstance)
    /\ IF mounted /\ DatabaseEffectRuns(Some(DbInstance))
       THEN /\ initFetch' = [pc |-> "sent", resp |-> <<>>]
            /\ initFetchCalls' = initFetchCalls + 1
            /\ dbCleanup' = TRUE
       ELSE UNCHANGED <<initFetch, initFetchCalls, dbCleanup>>
    /\ UNCHANGED closeCalls
    /\ UNCHANGED <<mounted, active, locVars, scanVars, codeRecords, store, clipboard, lastFetch>>

\* Mutant: a catch block stores a fallback handle when connectDatabase() rejects,
\* so the [database] effect runs after all.
MutConnectRejectedFallback ==
    /\ dbPc = "awaitConnect"
    /\ dbPc' = "rejected"
    /\ database' = Some(DbInstance)
    /\ IF mounted
       THEN /\ initFetch' = [pc |-> "sent", resp |-> <<>>]
            /\ initFetchCalls' = initFetchCalls + 1
            /\ dbCleanup' = TRUE
       ELSE UNCHANGED <<initFetch, initFetchCalls, dbCleanup>>
    /\ UNCHANGED closeCalls
    /\ UNCHANGED <<mounted, active, locVars, scanVars, codeRecords, store, clipboard, lastFetch>>

\* connectDatabase() rejects: initializeDatabase ends, setDatabase is not called.
ConnectRejected ==
    /\ dbPc = "awaitConnect"
    /\ dbPc' = "rejected"
    /\ UNCHANGED <<database, dbCleanup, closeCalls, initFetch, initFetchCalls>>
    /\ UNCHANGED <<mounted, active, locVars, scanVars, codeRecords, store, clipboard, lastFetch>>

\* The fetchAllCodes() of the [database] effect resolves: setCodeRecords(records).
InitFetchResolved ==
    /\ initFetch.pc = "ready"
    /\ initFetch' = [initFetch EXCEPT !.pc = "applied"]
    /\ codeRecords' = SetCodeRecords(initFetch.resp)
    /\ lastFetch' = [by |-> "init", slot |-> 0, result |-> initFetch.resp,
                     tornDown |-> ~mounted]
    /\ UNCHANGED <<database, dbPc, dbCleanup, closeCalls, initFetchCalls>>
    /\ UNCHANGED <<mounted, active, locVars, scanVars, store, clipboard>>

\* The fetchAllCodes() of the [database] effect rejects: nothing is set.
InitFetchRejected ==
    /\ initFetch.pc = "sent"
    /\ initFetch' = [initFetch EXCEPT !.pc = "rejected"]
    /\ UNCHANGED <<database, dbPc, dbCleanup, closeCalls, initFetchCalls>>
    /\ UNCHANGED <<mounted, active, locVars, scanVars, codeRecords, store, clipboard, lastFetch>>

\* ------------------------------------------------------------- teardown
\* The screen is torn down: both effects' cleanups run.
Unmount ==
    /\ mounted
    /\ mounted' = FALSE
    /\ active' = FALSE
    /\ closeCalls' = IF dbCleanup THEN closeCalls + 1 ELSE closeCalls
    /\ UNCHANGED <<database, dbPc, dbCleanup, initFetch, initFetchCalls>>
    /\ UNCHANGED <<locVars, scanVars, codeRecords, store, clipboard, lastFetch>>

\* ------------------------------------------------------------- scan handler
\* Mutant: a reentrancy guard drops an event that arrives while an earlier
\* invocation is still suspended at one of its awaits.
MutScanDetectedGuarded(i, scanData) ==
    /\ mounted
    /\ scans[i].pc = "idle"
    /\ \A j \in Slots : j < i => scans[j].pc # "idle"
    /\ scanEvents' = scanEvents + 1
    /\ IF \E j \in Slots : InFlight(scans[j].pc)
       THEN UNCHANGED <<scans, saveCalls, scanOverlap>>
       ELSE /\ scans' = [scans EXCEPT ![i] =
                    [pc |-> "saveSent", data |-> scanData.data, type |-> scanData.type,
                     saveArgs |-> SaveArgs(scanData), savedId |-> 0, resp |-> <<>>]]
            /\ saveCalls' = saveCalls + 1
            /\ scanOverlap' = scanOverlap
    /\ UNCHANGED fetchCalls
    /\ UNCHANGED <<mounted, active, locVars, dbVars, codeRecords, store, clipboard, lastFetch>>

\* The camera delivers the next scan event: handleScanResult runs to its first
\* await, saveCode({content, format}).
ScanDetected(i, scanData) ==
    /\ mounted
    /\ scans[i].pc = "idle"
    /\ \A j \in Slots : j < i => scans[j].pc # "idle"
    /\ scans' = [scans EXCEPT ![i] =
                    [pc |-> "saveSent", data |-> scanData.data, type |-> scanData.type,
                     saveArgs |-> SaveArgs(scanData), savedId |-> 0, resp |-> <<>>]]
    /\ scanEvents' = scanEvents + 1
    /\ saveCalls' = saveCalls + 1
    /\ scanOverlap' =
          IF scanOverlap = "beforeSave" \/ \E j \in Slots : SavePending(scans[j].pc)
          THEN "beforeSave"
          ELSE IF scanOverlap = "afterSave"
                  \/ \E j \in Slots : j < i /\ scans[j].pc # "applied"
               THEN "afterSave"
               ELSE "none"
    /\ UNCHANGED fetchCalls
    /\ UNCHANGED <<mounted, active, locVars, dbVars, codeRecords, store, clipboard, lastFetch>>

\* saveCode resolves: handleScanResult goes on to its second await, fetchAllCodes().
SaveResolved(i) ==
    /\ scans[i].pc = "saveReady"
    /\ scans' = [scans EXCEPT ![i].pc = "fetchSent"]
    /\ fetchCalls' = fetchCalls + 1
    /\ UNCHANGED <<scanEvents, saveCalls, scanOverlap>>
    /\ UNCHANGED <<mounted, active, locVars, dbVars, codeRecords, store, clipboard, lastFetch>>

\* Mutant: the rejection of saveCode is swallowed and the handler goes on to
\* fetchAllCodes().
MutSaveRejectedFetches(i) ==
    /\ scans[i].pc = "saveSent"
    /\ scans' = [scans EXCEPT ![i].pc = "fetchSent"]
    /\ fetchCalls' = fetchCalls + 1
    /\ UNCHANGED <<scanEvents, saveCalls, scanOverlap>>
    /\ UNCHANGED <<mounted, active, locVars, dbVars, codeRecords, store, clipboard, lastFetch>>

\* saveCode rejects: handleScanResult ends without a fetch.
SaveRejected(i) ==
    /\ scans[i].pc = "saveSent"
    /\ scans' = [scans EXCEPT ![i].pc = "saveRejected"]
    /\ UNCHANGED <<scanEvents, saveCalls, fetchCalls, scanOverlap>>
    /\ UNCHANGED <<mounted, active, locVars, dbVars, codeRecords, store, clipboard, lastFetch>>

\* Mutant: a liveness flag like `active` guards setCodeRecords, so a fetch that
\* resolves after teardown is discarded.
MutFetchResolvedGuarded(i) ==
    /\ scans[i].pc = "fetchReady"
    /\ scans' = [scans EXCEPT ![i].pc = "applied"]
    /\ UNCHANGED <<scanEvents, saveCalls, fetchCalls, scanOverlap>>
    /\ IF mounted
       THEN /\ codeRecords' = SetCodeRecords(scans[i].resp)
            /\ lastFetch' = [by |-> "scan", slot |-> i, result |-> scans[i].resp,
                             tornDown |-> FALSE]
       ELSE UNCHANGED <<codeRecords, lastFetch>>
    /\ UNCHANGED <<mounted, active, locVars, dbVars, store, clipboard>>

\* fetchAllCodes resolves: setCodeRecords(updatedRecords).
FetchResolved(i) ==
    /\ scans[i].pc = "fetchReady"
    /\ scans' = [scans EXCEPT ![i].pc = "applied"]
    /\ UNCHANGED <<scanEvents, saveCalls, fetchCalls, scanOverlap>>
    /\ codeRecords' = SetCodeRecords(scans[i].resp)
    /\ lastFetch' = [by |-> "scan", slot |-> i, result |-> scans[i].resp,
                     tornDown |-> ~mounted]
    /\ UNCHANGED <<mounted, active, locVars, dbVars, store, clipboard>>

\* fetchAllCodes rejects: handleScanResult ends, nothing is set.
FetchRejected(i) ==
    /\ scans[i].pc = "fetchSent"
    /\ scans' = [scans EXCEPT ![i].pc = "fetchRejected"]
    /\ UNCHANGED <<scanEvents, saveCalls, fetchCalls, scanOverlap>>
    /\ UNCHANGED <<mounted, active, locVars, dbVars, codeRecords, store, clipboard, lastFetch>>

\* ------------------------------------------------------------- list item
\* Mutant: the copy action also refreshes the list with a fetchAllCodes().
MutCopyRefreshes(k) ==
    /\ mounted
    /\ k \in 1..Len(codeRecords)
    /\ clipboard' = Some(codeRecords[k].content)
    /\ codeRecords' = store
    /\ UNCHANGED <<mounted, active, locVars, dbVars, scanVars, store, lastFetch>>

\* The user presses "Copiar" on the k-th item of the displayed list:
\* Clipboard.setStringAsync(item.content), then the notice.
copyToClipboard(k) ==
    /\ mounted
    /\ k \in 1..Len(codeRecords)
    /\ clipboard' = Some(codeRecords[k].content)
    /\ UNCHANGED <<mounted, active, locVars, dbVars, scanVars, codeRecords, store, lastFetch>>

\* ------------------------------------------------------------- web service
\* The service stores the record of a save request.
ServiceSave(i) ==
    /\ scans[i].pc = "saveSent"
    /\ store' = Append(store, NewRecord(scans[i].saveArgs, store))
    /\ scans' = [scans EXCEPT ![i].pc = "saveReady", ![i].savedId = Len(store) + 1]
    /\ UNCHANGED <<scanEvents, saveCalls, fetchCalls, scanOverlap>>
    /\ UNCHANGED <<mounted, active, locVars, dbVars, codeRecords, clipboard, lastFetch>>

\* The service answers a scan handler's fetch with all records it holds.
ServiceFetch(i) ==
    /\ scans[i].pc = "fetchSent"
    /\ scans' = [scans EXCEPT ![i].pc = "fetchReady", ![i].resp = store]
    /\ UNCHANGED <<scanEvents, saveCalls, fetchCalls, scanOverlap>>
    /\ UNCHANGED <<mounted, active, locVars, dbVars, codeRecords, store, clipboard, lastFetch>>

\* The service answers the initial fetch with all records it holds.
ServiceInitFetch ==
    /\ initFetch.pc = "sent"
    /\ initFetch' = [pc |-> "ready", resp |-> store]
    /\ UNCHANGED <<database, dbPc, dbCleanup, closeCalls, initFetchCalls>>
    /\ UNCHANGED <<mounted, active, locVars, scanVars, codeRecords, store, clipboard, lastFetch>>

\* ------------------------------------------------------------- specification
Next ==
    \/ \E status \in PermissionStatuses : PermissionResolved(status)
    \/ \E position \in Positions : PositionResolved(position)
    \/ LocationRejected
    \/ ConnectResolved
    \/ ConnectRejected
    \/ InitFetchResolved
    \/ InitFetchRejected
    \/ Unmount
    \/ \E i \in Slots : \E scanData \in ScanInputsAt(i) : ScanDetected(i, scanData)
    \/ \E i \in Slots : SaveResolved(i)
    \/ \E i \in Slots : SaveRejected(i)
    \/ \E i \in Slots : FetchResolved(i)
    \/ \E i \in Slots : FetchRejected(i)
    \/ \E i \in Slots : ServiceSave(i)
    \/ \E i \in Slots : ServiceFetch(i)
    \/ ServiceInitFetch
    \/ \E k \in DOMAIN codeRecords : copyToClipboard(k)

Spec == Init /\ [][Next]_vars

\* ------------------------------------------------------------- properties
\* No save and no fetch is in flight.
Quiescent ==
    /\ initFetch.pc \notin {"sent", "ready"}
    /\ \A i \in Slots : ~InFlight(scans[i].pc)

Fired == {i \in Slots : scans[i].pc # "idle"}

\* Every scan event received so far was saved, fetched and applied.
AllApplied == Fired # {} /\ \A i \in Fired : scans[i].pc = "applied"

LastFired == CHOOSE i \in Fired : \A j \in Fired : j <= i

ContentsOf(records) == {records[k].content : k \in 1..Len(records)}

\* C1: when the scan events do not overlap and nothing is pending any more, the
\* displayed list is the collection returned by a fetch issued after the last
\* save completed (here: the last scan handler's own fetch), whenever the
\* initial fetch resolved.
C1_NoOverlapFinalList ==
    (Quiescent /\ AllApplied /\ scanOverlap = "none")
        => codeRecords = scans[LastFired].resp

\* C2: closeConnection is called exactly once for every handle connectDatabase()
\* resolved with, at teardown: never before teardown, never twice, and once the
\* screen is torn down and the open has resolved, exactly once.
C2_CloseExactlyOncePerOpen ==
    /\ closeCalls <= 1
    /\ mounted => closeCalls = 0
    /\ (~mounted /\ dbPc = "connected") => closeCalls = 1

\* C3: two scan events, the second fired before the first's save resolved, both
\* saved and fetched: two scan-triggered fetches were issued and, with nothing
\* pending, the displayed list is one of the two fetch results.
C3_TwoOverlappingScans ==
    (Quiescent /\ Fired = {1, 2} /\ AllApplied /\ scanOverlap = "beforeSave")
        => /\ saveCalls = 2
           /\ fetchCalls = 2
           /\ codeRecords \in {scans[1].resp, scans[2].resp}

\* C4: once every save and fetch has resolved, the displayed list equals the
\* content of the store (stated for the runs in which every scan handler ran to
\* its end and the list was last replaced by a scan-triggered fetch).
C4_ListEqualsStore ==
    (Quiescent /\ AllApplied /\ lastFetch.by = "scan") => codeRecords = store

\* C5: the displayed list is the initial empty list until a fetch resolves, and
\* from then on exactly the collection returned by the fetch that resolved most
\* recently, in the same order; a scan event alone adds nothing to it.
C5_ListIsLastFetchResult ==
    IF lastFetch.by = "none" THEN codeRecords = <<>>
    ELSE codeRecords = lastFetch.result

\* C5 witness: a second scan's record is already stored while the list still is
\* the one-record result of the first scan's fetch.
C5_Witness ==
    /\ lastFetch.by = "scan"
    /\ Len(codeRecords) = 1
    /\ scans[2].pc = "saveReady"
    /\ Len(store) = 2

\* C6: the location status is exactly one of pending (both cells null), error
\* (locationError set) or coordinates (currentLocation set); the two cells are
\* never both set.
C6_LocationStatusExclusive ==
    \/ /\ locationError = Null /\ currentLocation = Null
       /\ locationStatus = <<"Obteniendo ubicacion...">>
    \/ /\ locationError # Null /\ currentLocation = Null
       /\ locationStatus = <<"Error", locationError[1]>>
    \/ /\ locationError = Null /\ currentLocation # Null
       /\ locationStatus[1] = "Ubicacion"

\* C6 witness: a denied request has set the error and the flow has ended.
C6_Witness ==
    /\ permission.status = "denied"
    /\ locationError # Null
    /\ locPc = "denied"

\* C7: after the permission request resolved with a status other than 'granted'
\* on an active screen, locationError is the fixed message, getCurrentPositionAsync
\* has not been called and currentLocation is null, in every later state.
C7_DeniedNoFix ==
    (permission.status \in PermissionStatuses \ {"granted"} /\ permission.whileActive)
        => /\ locationError = Some(DeniedMessage)
           /\ positionCalls = 0
           /\ currentLocation = Null

\* C7 witness: the request resolved 'undetermined', and the screen has since been
\* torn down.
C7_Witness ==
    /\ permission.status = "undetermined"
    /\ permission.whileActive
    /\ ~mounted

\* C8: once active is false, no step changes locationError or currentLocation.
C8_LateResultsDiscarded ==
    [][~active => (locationError' = locationError /\ currentLocation' = currentLocation)]_vars

\* C8 witness: the position fix resolved after teardown and was discarded.
C8_Witness ==
    /\ ~active
    /\ locPc = "cancelled"
    /\ positionCalls = 1
    /\ currentLocation = Null

\* C9: no initial fetch is issued while database is undefined; on a mounted
\* screen whose database is set exactly one initial fetch has been issued, and
\* never more than one; when its result is the last to resolve, it is the list.
C9_OneInitialFetch ==
    /\ database = Undefined => (initFetchCalls = 0 /\ initFetch.pc = "none")
    /\ (mounted /\ database # Undefined) => initFetchCalls = 1
    /\ initFetchCalls <= 1
    /\ lastFetch.by = "init" => (initFetch.pc = "applied" /\ codeRecords = initFetch.resp)

\* C9 witness: the initial fetch returned a stored record and populated the list.
C9_Witness ==
    /\ initFetchCalls = 1
    /\ initFetch.pc = "applied"
    /\ lastFetch.by = "init"
    /\ Len(codeRecords) = 1

\* C10: every scan handler calls saveCode with its event's own pair; its fetch
\* is issued only after its save completed; the fetch result holds an entry with
\* the event's content, and so does the list right after that fetch is applied.
C10_SaveThenFetch ==
    /\ \A i \in Fired :
        /\ scans[i].saveArgs = [content |-> scans[i].data, format |-> scans[i].type]
        /\ scans[i].pc \in {"fetchSent", "fetchReady", "applied", "fetchRejected"}
              => /\ scans[i].savedId \in 1..Len(store)
                 /\ store[scans[i].savedId].content = scans[i].data
                 /\ store[scans[i].savedId].format = scans[i].type
        /\ scans[i].pc \in {"fetchReady", "applied"}
              => scans[i].data \in ContentsOf(scans[i].resp)
    /\ saveCalls = Cardinality(Fired)
    /\ fetchCalls <= saveCalls
    /\ lastFetch.by = "scan" => scans[lastFetch.slot].data \in ContentsOf(codeRecords)

\* C10 witness: the scan ABC123 / qr was saved, fetched and its fetch applied last.
C10_Witness ==
    /\ lastFetch.by = "scan"
    /\ scans[lastFetch.slot].data = "ABC123"
    /\ scans[lastFetch.slot].saveArgs = [content |-> "ABC123", format |-> "qr"]
    /\ "ABC123" \in ContentsOf(codeRecords)

\* C11: there is no debounce, dedup or reentrancy guard: the number of saveCode
\* calls equals the number of scan events received, every event has a save of
\* its own, also when it repeats a content or arrives while an earlier save or
\* fetch is in flight.
C11_OneSavePerScanEvent ==
    /\ saveCalls = scanEvents
    /\ scanEvents = Cardinality(Fired)
    /\ \A i \in Fired : scans[i].saveArgs.content = scans[i].data

\* C11 witness: the same code was detected twice, the second time before the
\* first save resolved, and the service stored two records for it.
C11_Witness ==
    /\ scanEvents = 2
    /\ saveCalls = 2
    /\ scanOverlap = "beforeSave"
    /\ scans[1].data = scans[2].data
    /\ Len(store) = 2
    /\ store[1].content = store[2].content

\* C12: a step that writes the clipboard writes the content of an item of the
\* displayed list and changes nothing else: the list, the location cells, the
\* database handle and the store stay as they are, and no saveCode or
\* fetchAllCodes call is issued.
C12_CopyOnlyWritesClipboard ==
    [][clipboard' # clipboard =>
          /\ \E k \in DOMAIN codeRecords : clipboard' = Some(codeRecords[k].content)
          /\ UNCHANGED <<codeRecords, currentLocation, locationError, database>>
          /\ UNCHANGED <<saveCalls, fetchCalls, initFetchCalls, scans, initFetch, store>>]_vars

\* C12 witness: the second item was copied while a fetch was still in flight
\* and the store already held more than the list shows.
C12_Witness ==
    /\ clipboard = Some("XYZ789")
    /\ Len(codeRecords) = 2
    /\ codeRecords[2].content = "XYZ789"
    /\ initFetch.pc = "ready"
    /\ lastFetch.by = "scan"

\* C13: neither the database-open flow nor the fetches have a cancellation
\* guard: whenever connectDatabase() resolves its handle is stored with
\* setDatabase, and whenever a scan-triggered or the initial fetch resolves its
\* result replaces codeRecords, torn down or not.
C13_NoGuardOnOpenAndFetch ==
    [][/\ (dbPc = "awaitConnect" /\ dbPc' = "connected") => database' = Some(DbInstance)
       /\ \A i \in Slots :
             (scans[i].pc = "fetchReady" /\ scans'[i].pc = "applied")
                 => codeRecords' = scans[i].resp
       /\ (initFetch.pc = "ready" /\ initFetch'.pc = "applied")
             => codeRecords' = initFetch.resp]_vars

\* C13 witness: after teardown the handle was stored (the [database] effect
\* never ran for it) and a scan-triggered fetch replaced the empty list.
C13_Witness ==
    /\ ~mounted
    /\ database = Some(DbInstance)
    /\ ~dbCleanup
    /\ lastFetch.by = "scan"
    /\ lastFetch.tornDown
    /\ codeRecords = lastFetch.result
    /\ Len(codeRecords) = 1

\* C14: the location permission is requested exactly once and the position fix
\* at most once, only after a 'granted' result on an active screen; a scan event
\* triggers neither, and once currentLocation is set no step changes it.
C14_OneShotLocation ==
    /\ [](/\ permissionCalls = 1
          /\ positionCalls <= 1
          /\ positionCalls = 1 => (permission.status = "granted" /\ permission.whileActive))
    /\ [][/\ scanEvents' # scanEvents => UNCHANGED <<permissionCalls, positionCalls>>
          /\ currentLocation # Null => currentLocation' = currentLocation]_vars

\* C14 witness: the fix was stored, then two scan events were handled and the
\* screen torn down, with one permission request and one fix request in all.
C14_Witness ==
    /\ locPc = "located"
    /\ currentLocation # Null
    /\ permissionCalls = 1
    /\ positionCalls = 1
    /\ scanEvents = 2
    /\ ~mounted

\* The invocations that have called fetchAllCodes.
Fetching == {i \in Slots : scans[i].pc \in {"fetchSent", "fetchReady", "applied", "fetchRejected"}}

\* C15: an invocation whose saveCode rejected issues no fetchAllCodes (only
\* invocations whose save was stored have fetched) and ends there; the step in
\* which saveCode or fetchAllCodes rejects leaves codeRecords, locationError and
\* the number of fetches as they are; and the next scan event can still be
\* handled on a mounted screen.
C15_RejectionsAreSilent ==
    /\ [](/\ fetchCalls = Cardinality(Fetching)
          /\ \A i \in Fetching : scans[i].savedId # 0
          /\ \A i \in Slots :
                (mounted /\ scans[i].pc = "idle" /\ \A j \in Slots : j < i => scans[j].pc # "idle")
                    => ENABLED (\E d \in ScanInputsAt(i) : ScanDetected(i, d)))
    /\ [][\A i \in Slots :
             /\ scans[i].pc = "saveRejected" => scans'[i].pc = "saveRejected"
             /\ (scans'[i].pc # scans[i].pc /\ scans'[i].pc \in {"saveRejected", "fetchRejected"})
                   => UNCHANGED <<codeRecords, locationError, fetchCalls, lastFetch>>]_vars

\* C15 witness: the first scan's save rejected, the second scan's fetch rejected
\* after an earlier list was shown, and the list and error cell are untouched.
C15_Witness ==
    /\ scans[1].pc = "saveRejected"
    /\ scans[2].pc = "fetchRejected"
    /\ fetchCalls = 1
    /\ lastFetch.by = "init"
    /\ codeRecords = lastFetch.result
    /\ locationError = Null
    /\ locPc = "located"

\* C16: once connectDatabase() has rejected, database is undefined, no initial
\* fetch is or was issued and closeConnection is not called, in every later
\* state; the scan handler still runs each of its steps, and the list is empty
\* until a scan-triggered fetch has resolved.
C16_ConnectRejected ==
    dbPc = "rejected" =>
        /\ database = Undefined
        /\ initFetchCalls = 0
        /\ initFetch.pc = "none"
        /\ ~dbCleanup
        /\ closeCalls = 0
        /\ lastFetch.by \in {"none", "scan"}
        /\ lastFetch.by = "none" => codeRecords = <<>>
        /\ \A i \in Slots :
              /\ (mounted /\ scans[i].pc = "idle" /\ \A j \in Slots : j < i => scans[j].pc # "idle")
                    => ENABLED (\E d \in ScanInputsAt(i) : ScanDetected(i, d))
              /\ scans[i].pc = "saveReady" => ENABLED SaveResolved(i)
              /\ scans[i].pc = "fetchReady" => ENABLED FetchResolved(i)

\* C16 witness: the open rejected, a scan was saved and fetched and filled the
\* list, and the screen was torn down without a closeConnection call.
C16_Witness ==
    /\ dbPc = "rejected"
    /\ ~mounted
    /\ closeCalls = 0
    /\ lastFetch.by = "scan"
    /\ Len(codeRecords) = 1

\* C17: the two bootstraps do not wait for each other: whatever state the
\* location flow is in, a pending open can resolve and a ready initial fetch can
\* fill the list; whatever state the database flow is in, a pending location
\* call can resolve; and no step of one flow changes the state of the other.
C17_BootstrapsIndependent ==
    /\ [](/\ dbPc = "awaitConnect" => ENABLED ConnectResolved
          /\ initFetch.pc = "ready" => ENABLED InitFetchResolved
          /\ locPc = "awaitPermission"
                => \A st \in PermissionStatuses : ENABLED PermissionResolved(st)
          /\ locPc = "awaitPosition"
                => \A p \in Positions : ENABLED PositionResolved(p))
    /\ [][/\ locVars' # locVars => UNCHANGED <<dbVars, codeRecords>>
          /\ dbVars' # dbVars => UNCHANGED locVars]_vars

\* C17 witness: the location request was denied before the open resolved, and
\* the initial fetch still filled the list with a stored record.
C17_Witness ==
    /\ locPc = "denied"
    /\ locationError # Null
    /\ initFetch.pc = "applied"
    /\ lastFetch.by = "init"
    /\ Len(codeRecords) = 1

====
